---- MODULE Spec2Model ----
(***************************************************************************)
(* Peloton storage-and-scan engine: the MVCC tile-group header, the        *)
(* sequential-scan executor over tile groups (Mode B) and over a child's   *)
(* logical tiles (Mode A).                                                 *)
(***************************************************************************)
EXTENDS Integers, Naturals, Sequences, FiniteSets, TLC

\* ------------------------------------------------------------------ bounds
MaxTileGroups == 2
SlotCapacity == 2
MaxCid == 2
MaxTxn == 2
MaxChildLen == 2
MaxOps == 2
ObserverTxn == 1
MaxTupleSlots == 2
MaxSerializations == 2
MaxRelations == 2
MaxBridgeCalls == 2

\* --------------------------------------------------------------- constants
INVALID_TXN_ID == 0
START_OID == 0
MAX_CID == MaxCid + 1

Txns == 1..MaxTxn
Cids == 1..MaxCid
SlotIds == 0..(SlotCapacity - 1)
NullValue == -1
Values == {NullValue, 0, 1}
NoTile == [none |-> TRUE]
NoPredicate == "nullptr"

VARIABLES
  table,            \* DataTable: sequence of tile groups (offset o is table[o+1])
  wpc, wslot,       \* per writer transaction: position inside reserve_slot, its result
  claimed,          \* per tile group and slot: how many reserve_slot calls claimed it
  ops,              \* number of header and table mutations made so far
  exec_state,       \* "absent", "constructed", or "inited" once DInit succeeded
  children,         \* children_.size()
  predicate,        \* the plan node's predicate, bound to predicate_
  txn_id, last_commit_id,   \* the executor context's transaction
  column_ids,
  current_tile_group_offset,
  table_tile_group_count,
  pc, tile_group, active_tuple_count, tuple_id, position_list,
  output,           \* the tile handed to SetOutput and not yet replaced
  ret,              \* what the last DExecute returned
  calls, emitted,   \* history of the scan since the last DInit
  child_tile,       \* Mode A: the tile last taken from children_[0]
  lock, hslot,      \* one header slot and its per-slot lock, field by field
  cpc, cop, ccid,   \* the committer on that slot: position, call, commit id
  rpc, rtxn, rcid,  \* the is_visible caller on that slot: position, observer
  rread, rret,      \* the fields that caller has read so far, its last answer
  pre, post,        \* the slot before and after the committer's call
  tiles,            \* the Tile objects, by tile id
  out,              \* the bytes of the SerializeOutput the tiles are written to
  ser,              \* the serializations of tile 1 so far, and the last one
  des,              \* the last DeserializeTuplesFrom call on tile 2
  eq,               \* what the last operator== calls returned
  freed,            \* per base tile: how many times it has been deleted
  held,             \* the LogicalTile the caller took with GetOutput or wrapped
  init_ret,         \* what the last DInit returned
  child_calls,      \* Mode A: the calls the last DExecute made on children_[0]
  bfn, bpc,         \* the bridge function the backend is in, and the line it is at
  heap_tuple, bscan, \* the HeapTuple last fetched, the tuples the pg_class scan returned
  bstatus,          \* BootstrapPeloton's local status
  xact,             \* the backend's transaction state
  heap,             \* per catalog relation: heap_open calls not yet matched by heap_close
  bret,             \* how the last bridge call ended
  bcalls            \* number of bridge calls made

hdrVars == <<table, wpc, wslot, claimed, ops>>
ctxVars == <<children, predicate, txn_id, last_commit_id>>
scanVars == <<exec_state, column_ids, current_tile_group_offset, table_tile_group_count,
              pc, tile_group, active_tuple_count, tuple_id, position_list,
              output, ret, calls, emitted>>
loopVars == <<pc, tile_group, active_tuple_count, tuple_id, position_list>>
slotVars == <<lock, hslot, cpc, cop, ccid, rpc, rtxn, rcid, rread, rret, pre, post>>
tileVars == <<tiles, out, ser, des, eq>>
ownVars == <<freed, held>>
callVars == <<init_ret, child_calls>>
bridgeVars == <<bfn, bpc, heap_tuple, bscan, bstatus, xact, heap, bret, bcalls>>
sideVars == <<child_tile, slotVars, tileVars, ownVars, child_calls, bridgeVars>>
vars == <<hdrVars, ctxVars, scanVars, sideVars, init_ret>>

\* ------------------------------------------------------- TileGroupHeader
FreeSlot == [txn |-> INVALID_TXN_ID, begin |-> MAX_CID, end |-> MAX_CID, val |-> NullValue]

NewTileGroup == [next |-> 0, slots |-> [s \in SlotIds |-> FreeSlot]]

\* rule 2 without the test that the slot is unlocked
VisibleTripleAnyOwner(tx, b, e, t, c) ==
  \/ tx = t
  \/ /\ b <= c
     /\ e > c

\* rule 2 with begin_cid compared for equality
VisibleTripleExactBegin(tx, b, e, t, c) ==
  \/ tx = t
  \/ /\ tx = INVALID_TXN_ID
     /\ b = c
     /\ e > c

\* is_visible on one slot's (tuple_txn_id, begin_cid, end_cid)
VisibleTriple(tx, b, e, t, c) ==
  \/ tx = t
  \/ /\ tx = INVALID_TXN_ID
     /\ b <= c
     /\ e > c

IsVisible(g, s, t, c) ==
  VisibleTriple(g.slots[s].txn, g.slots[s].begin, g.slots[s].end, t, c)

GetNextTupleSlot(g) == g.next

GetTileGroupCount == Len(table)

Full == -1

NoSlot == <<0, 0>>

\* the atomic claim of reserve_slot: the slot claimed, or Full
ClaimSlot(g) == IF g.next < SlotCapacity THEN g.next ELSE Full

\* the claim without the add of the fetch-add
ClaimedNextStale(g) == g.next

ClaimedNext(g) == IF g.next < SlotCapacity THEN g.next + 1 ELSE g.next

\* the stamp of reserve_slot, with the tuple copied into the slot
StampSlot(t, v) == [txn |-> t, begin |-> MAX_CID, end |-> MAX_CID, val |-> v]

InsertCommitted(r, cid) == [r EXCEPT !.begin = cid, !.txn = INVALID_TXN_ID]

DeleteCommitted(r, cid) == [r EXCEPT !.end = cid, !.txn = INVALID_TXN_ID]

\* an abort that restores the commit ids and leaves the writer id in place
AbortedKeepsOwner(r) == [r EXCEPT !.begin = MAX_CID, !.end = MAX_CID]

Aborted(r) == [r EXCEPT !.begin = MAX_CID, !.end = MAX_CID, !.txn = INVALID_TXN_ID]

\* ------------------------------------------------------------- expression
\* predicate a > 0 over the tuple's attribute, tri-valued
Evaluate(v) == IF v = NullValue THEN "null" ELSE IF v > 0 THEN "true" ELSE "false"

\* the evaluation of predicate p that fails: 1 / a > 0 divides by zero
EvaluateThrows(p, v) == p = "1 / a > 0" /\ v = 0

IsTrue(r) == r = "true"

IsFalse(r) == r = "false"

\* --------------------------------------------------------------- LogicalTile
AllVisible(n) == [i \in 1..n |-> TRUE]

\* TileGroup::LocateTileAndColumn: <<base_tile_offset, tile_column_id>>
LocateTileAndColumn(origin_column_id) == <<origin_column_id, 0>>

ColumnCount == 2

Iota(n) == [i \in 1..n |-> i - 1]

\* line 139 with own_base_tile = true
AddColumnOwning(tg, origin_column_id) ==
  [tile |-> <<tg, LocateTileAndColumn(origin_column_id)[1]>>,
   own_base_tile |-> TRUE,
   tile_column_id |-> LocateTileAndColumn(origin_column_id)[2],
   position_list_idx |-> 0]

AddColumn(tg, origin_column_id) ==
  [tile |-> <<tg, LocateTileAndColumn(origin_column_id)[1]>>,
   own_base_tile |-> FALSE,
   tile_column_id |-> LocateTileAndColumn(origin_column_id)[2],
   position_list_idx |-> 0]

\* the tile built at lines 137-151 for tile group offset tg
BuildLogicalTile(tg, plist, cols) ==
  [position_lists |-> <<plist>>,
   visible |-> AllVisible(Len(plist)),
   columns |-> [i \in 1..Len(cols) |-> AddColumn(tg, cols[i])],
   vals |-> [i \in 1..Len(plist) |-> table[tg + 1].slots[plist[i]].val]]

RemoveVisibility(tile, i) == [tile EXCEPT !.visible[i] = FALSE]

\* the base tiles of the table's tile groups, and one tile outside the table
TempTile == <<MaxTileGroups, 0>>

BaseTiles == ((0..(MaxTileGroups - 1)) \X (0..(ColumnCount - 1))) \cup {TempTile}

NoCalls == [Execute |-> 0, returned |-> FALSE, GetOutput |-> 0]

\* ------------------------------------------------------- catalog bridge
Relations == {"pg_class", "pg_attribute", "pg_database", "pg_index"}

NoLocks == [r \in Relations |-> 0]

NoReturn == [fn |-> "none", kind |-> "none", line |-> 0]

\* ---------------------------------------------------------------------- Tile
INVALID_ID == -1

VALUE_TYPE_TINYINT == 3

TileIds == {1, 2}

ColumnCounts == {1, 2}

\* the tuples InsertTuple callers store: TINYINT columns v, v + 1, ...
TupleBytes == {1, 3}

TuplesOf(cc) == {[i \in 1..cc |-> v + i - 1] : v \in TupleBytes}

NoSerialization ==
  [count |-> 0, call |-> "none", pos |-> 0, n |-> 0, ret |-> "none", headers |-> <<>>]

NoDeserialization == [ret |-> "none", from |-> 0, before |-> NoTile]

\* SerializeOutput: big-endian bytes appended at Position()
Int32Bytes(v) ==
  IF v = -1
  THEN <<255, 255, 255, 255>>
  ELSE <<(v \div 16777216) % 256, (v \div 65536) % 256, (v \div 256) % 256, v % 256>>

Position(o) == Len(o)

WriteInt(o, v) == o \o Int32Bytes(v)

WriteByte(o, b) == Append(o, (b + 256) % 256)

WriteShort(o, v) == o \o <<(v \div 256) % 256, v % 256>>

WriteBytes(o, bytes) == o \o bytes

WriteIntAt(o, pos, v) ==
  [i \in 1..Len(o) |-> IF i > pos /\ i <= pos + 4 THEN Int32Bytes(v)[i - pos] ELSE o[i]]

\* SerializeInput: big-endian reads at byte offset p
ReadByte(in, p) == IF in[p + 1] >= 128 THEN in[p + 1] - 256 ELSE in[p + 1]

ReadShort(in, p) == ReadByte(in, p) * 256 + in[p + 2]

ReadInt(in, p) ==
  ReadByte(in, p) * 16777216 + in[p + 2] * 65536 + in[p + 3] * 256 + in[p + 4]

\* Tile::Tile: zeroed storage for tuple_count tuples, no cached header
NewTile(cc, tuple_count) ==
  [column_count |-> cc,
   column_names |-> [i \in 1..cc |-> <<96 + i>>],
   schema |-> [i \in 1..cc |-> VALUE_TYPE_TINYINT],
   database_id |-> INVALID_ID,
   num_tuple_slots |-> tuple_count,
   data |-> [k \in 1..tuple_count |-> [i \in 1..cc |-> 0]],
   column_header |-> <<>>,
   column_header_size |-> INVALID_ID]

\* Tuple::SerializeTo: the TINYINT columns, packed
TupleSerializeTo(o, tuple) == WriteBytes(o, tuple)

\* lines 253-265, from column i on
RECURSIVE WriteColumnNames(_, _, _)
WriteColumnNames(o, t, i) ==
  IF i > t.column_count
  THEN o
  ELSE WriteColumnNames(WriteBytes(WriteInt(o, Len(t.column_names[i])), t.column_names[i]),
                        t, i + 1)

\* the header with the cache filled before line 272 patches the size in
SerializeHeaderToCachedEarly(t, o) ==
  IF t.column_header # <<>>
  THEN [tile |-> t, out |-> WriteBytes(o, SubSeq(t.column_header, 1, t.column_header_size))]
  ELSE LET start == Position(o)
           o1 == WriteShort(WriteByte(WriteInt(o, -1), -128), t.column_count)
           o2 == WriteBytes(o1, t.schema)
           o3 == WriteColumnNames(o2, t, 1)
           size == Position(o3) - start
       IN  [tile |-> [t EXCEPT !.column_header = SubSeq(o3, start + 1, start + size),
                               !.column_header_size = size],
            out |-> WriteIntAt(o3, start, size - 4)]

\* Tile::SerializeHeaderTo: the tile with its cache, and the output
SerializeHeaderTo(t, o) ==
  IF t.column_header # <<>>
  THEN [tile |-> t, out |-> WriteBytes(o, SubSeq(t.column_header, 1, t.column_header_size))]
  ELSE LET start == Position(o)
           o1 == WriteShort(WriteByte(WriteInt(o, -1), -128), t.column_count)
           o2 == WriteBytes(o1, t.schema)
           o3 == WriteColumnNames(o2, t, 1)
           size == Position(o3) - start
           o4 == WriteIntAt(o3, start, size - 4)
       IN  [tile |-> [t EXCEPT !.column_header = SubSeq(o4, start + 1, start + size),
                               !.column_header_size = size],
            out |-> o4]

\* lines 206-209: the tuples of the first k slots, in iteration order
RECURSIVE WriteTuples(_, _, _, _)
WriteTuples(o, t, i, k) ==
  IF i > k THEN o ELSE WriteTuples(TupleSerializeTo(o, t.data[i]), t, i + 1, k)

Min(a, b) == IF a < b THEN a ELSE b

\* Tile::SerializeTo; NDEBUG tells whether the build compiles the asserts out
SerializeTo(t, o, num_tuples, NDEBUG) ==
  LET pos == Position(o)
      h == SerializeHeaderTo(t, WriteInt(o, -1))
      o1 == WriteInt(h.out, num_tuples)
      written_count == Min(num_tuples, t.num_tuple_slots)
      o2 == WriteTuples(o1, t, 1, written_count)
      sz == Position(o2) - pos - 4
      header == SubSeq(h.out, pos + 5, Len(h.out))
  IN  IF written_count # num_tuples /\ ~NDEBUG
      THEN [ret |-> "abort", tile |-> h.tile, out |-> o2, header |-> header]
      ELSE [ret |-> "true", tile |-> h.tile, out |-> WriteIntAt(o2, pos, sz),
            header |-> header]

\* lines 293-295, from tuple i on
RECURSIVE WriteGivenTuples(_, _, _)
WriteGivenTuples(o, tuples, i) ==
  IF i > Len(tuples) THEN o ELSE WriteGivenTuples(TupleSerializeTo(o, tuples[i]), tuples, i + 1)

\* Tile::SerializeTuplesTo over the num_tuples tuples given
SerializeTuplesTo(t, o, tuples) ==
  LET pos == Position(o)
      h == SerializeHeaderTo(t, WriteInt(o, -1))
      o1 == WriteInt(h.out, Len(tuples))
      o2 == WriteGivenTuples(o1, tuples, 1)
  IN  [ret |-> "true", tile |-> h.tile,
       out |-> WriteIntAt(o2, pos, Position(o2) - pos - 4),
       header |-> SubSeq(h.out, pos + 5, Len(h.out))]

\* lines 340-342: the offset after k length-prefixed strings, -1 past the end
RECURSIVE SkipTextStrings(_, _, _)
SkipTextStrings(in, p, k) ==
  IF k = 0 THEN p
  ELSE IF p + 4 > Len(in) THEN -1
  ELSE IF ReadInt(in, p) < 0 \/ p + 4 + ReadInt(in, p) > Len(in) THEN -1
  ELSE SkipTextStrings(in, p + 4 + ReadInt(in, p), k - 1)

\* Tile::DeserializeTuplesFromWithoutHeader, reading at offset p; a read past
\* the end of the input or a write past the tile's storage is "overrun"
DeserializeTuplesFromWithoutHeader(t, in, p, NDEBUG) ==
  IF p + 4 > Len(in)
  THEN [ret |-> "overrun", tile |-> t]
  ELSE LET tuple_count == ReadInt(in, p)
           tuple_length == t.column_count
       IN  IF (tuple_count <= 0 \/ tuple_count > t.num_tuple_slots) /\ ~NDEBUG
           THEN [ret |-> "abort", tile |-> t]
           ELSE IF tuple_count < 0 \/ tuple_count > t.num_tuple_slots
                   \/ p + 4 + tuple_count * tuple_length > Len(in)
           THEN [ret |-> "overrun", tile |-> t]
           ELSE [ret |-> "ok",
                 tile |-> [t EXCEPT !.data =
                   [k \in 1..t.num_tuple_slots |->
                      IF k <= tuple_count
                      THEN SubSeq(in, p + 4 + (k - 1) * tuple_length + 1,
                                  p + 4 + k * tuple_length)
                      ELSE t.data[k]]]]

\* the column count of line 327, for input read from offset p
ColumnCountRead(in, p) == ReadShort(in, p + 5)

\* the column count compared after the rows have been loaded
DeserializeTuplesFromLoadFirst(t, in, p, NDEBUG) ==
  IF p + 7 > Len(in)
  THEN [ret |-> "overrun", tile |-> t]
  ELSE LET column_count == ColumnCountRead(in, p)
           names_end == IF column_count < 0 \/ p + 7 + column_count > Len(in)
                        THEN -1
                        ELSE SkipTextStrings(in, p + 7 + column_count, column_count)
       IN  IF column_count = 0 /\ ~NDEBUG
           THEN [ret |-> "abort", tile |-> t]
           ELSE IF names_end = -1
           THEN [ret |-> "overrun", tile |-> t]
           ELSE IF column_count # t.column_count
           THEN [ret |-> "SerializationException",
                 tile |-> DeserializeTuplesFromWithoutHeader(t, in, names_end, NDEBUG).tile]
           ELSE DeserializeTuplesFromWithoutHeader(t, in, names_end, NDEBUG)

\* Tile::DeserializeTuplesFrom, reading at offset p
DeserializeTuplesFrom(t, in, p, NDEBUG) ==
  IF p + 7 > Len(in)
  THEN [ret |-> "overrun", tile |-> t]
  ELSE LET column_count == ColumnCountRead(in, p)
           names_end == IF column_count < 0 \/ p + 7 + column_count > Len(in)
                        THEN -1
                        ELSE SkipTextStrings(in, p + 7 + column_count, column_count)
       IN  IF column_count = 0 /\ ~NDEBUG
           THEN [ret |-> "abort", tile |-> t]
           ELSE IF names_end = -1
           THEN [ret |-> "overrun", tile |-> t]
           ELSE IF column_count # t.column_count
           THEN [ret |-> "SerializationException", tile |-> t]
           ELSE DeserializeTuplesFromWithoutHeader(t, in, names_end, NDEBUG)

\* lines 410-416, from the i-th tuple of the iteration on
RECURSIVE TuplesMatch(_, _, _)
TuplesMatch(this, other, i) ==
  IF i > this.num_tuple_slots THEN TRUE
  ELSE IF i > other.num_tuple_slots THEN FALSE
  ELSE IF this.data[i] # other.data[i] THEN FALSE
  ELSE TuplesMatch(this, other, i + 1)

\* Tile::operator==
TileEquals(this, other) ==
  IF this.column_count # other.column_count THEN FALSE
  ELSE IF this.database_id # other.database_id THEN FALSE
  ELSE IF this.schema # other.schema THEN FALSE
  ELSE TuplesMatch(this, other, 1)

\* ------------------------------------------------------------------- Init
\* everything but the table: no writer is in a call, no executor exists
InitRest ==
  /\ wpc = [t \in Txns |-> "idle"]
  /\ wslot = [t \in Txns |-> NoSlot]
  /\ ops = 0
  /\ exec_state = "absent"
  /\ children = 0
  /\ predicate = NoPredicate
  /\ txn_id = INVALID_TXN_ID
  /\ last_commit_id = 0
  /\ column_ids = <<>>
  /\ current_tile_group_offset = START_OID
  /\ table_tile_group_count = 0
  /\ pc = "idle"
  /\ tile_group = 0
  /\ active_tuple_count = 0
  /\ tuple_id = 0
  /\ position_list = <<>>
  /\ output = NoTile
  /\ ret = "none"
  /\ calls = 0
  /\ emitted = <<>>
  /\ child_tile = NoTile
  /\ lock = "free"
  /\ hslot = FreeSlot
  /\ cpc = "idle"
  /\ cop = "none"
  /\ ccid = 0
  /\ rpc = "idle"
  /\ rtxn = INVALID_TXN_ID
  /\ rcid = 0
  /\ rread = <<>>
  /\ rret = FALSE
  /\ pre = FreeSlot
  /\ post = FreeSlot
  /\ tiles = [i \in TileIds |-> NoTile]
  /\ out = <<>>
  /\ ser = NoSerialization
  /\ des = NoDeserialization
  /\ eq = [i \in TileIds |-> "none"]
  /\ freed = [b \in BaseTiles |-> 0]
  /\ held = NoTile
  /\ init_ret = "none"
  /\ child_calls = NoCalls
  /\ bfn = "none"
  /\ bpc = 0
  /\ heap_tuple = "NULL"
  /\ bscan = 0
  /\ bstatus = "unset"
  /\ xact = "default"
  /\ heap = NoLocks
  /\ bret = NoReturn
  /\ bcalls = 0

\* a table of empty tile groups
Init ==
  /\ table \in {[o \in 1..n |-> NewTileGroup] : n \in 0..MaxTileGroups}
  /\ claimed = [o \in 0..(MaxTileGroups - 1) |-> [s \in SlotIds |-> 0]]
  /\ InitRest

\* a tile group whose slot 0 holds a tuple inserted and committed at commit id 1
LoadedTileGroup ==
  [next |-> 1,
   slots |-> [s \in SlotIds |-> IF s = 0 THEN InsertCommitted(StampSlot(ObserverTxn, 1), 1)
                                         ELSE FreeSlot]]

\* a table whose first tile group may hold a committed tuple
InitConc ==
  /\ table \in {[o \in 1..n |-> IF o = 1 THEN g ELSE NewTileGroup] :
                  n \in 1..MaxTileGroups, g \in {NewTileGroup, LoadedTileGroup}}
  /\ claimed = [o \in 0..(MaxTileGroups - 1) |->
                 [s \in SlotIds |-> IF o = 0 /\ s < table[1].next THEN 1 ELSE 0]]
  /\ InitRest

\* ------------------------------------------------ writers (header callers)
AddTileGroup ==
  /\ Len(table) < MaxTileGroups
  /\ ops < MaxOps
  /\ table' = Append(table, NewTileGroup)
  /\ ops' = ops + 1
  /\ UNCHANGED <<wpc, wslot, claimed, ctxVars, scanVars, sideVars, init_ret>>

\* reserve_slot, first half: the atomic claim of next_free_slot
reserve_slot_claim(t, o) ==
  /\ wpc[t] = "idle"
  /\ o \in 0..(Len(table) - 1)
  /\ LET g == table[o + 1]
         slot == ClaimSlot(g)
     IN  IF slot = Full
         THEN /\ wslot' = [wslot EXCEPT ![t] = <<o, Full>>]
              /\ UNCHANGED <<table, wpc, claimed, ops>>
         ELSE /\ ops < MaxOps
              /\ table' = [table EXCEPT ![o + 1].next = ClaimedNext(g)]
              /\ wpc' = [wpc EXCEPT ![t] = "stamp"]
              /\ wslot' = [wslot EXCEPT ![t] = <<o, slot>>]
              /\ claimed' = [claimed EXCEPT ![o][slot] = @ + 1]
              /\ ops' = ops + 1
  /\ UNCHANGED <<ctxVars, scanVars, sideVars, init_ret>>

\* reserve_slot, second half: the stamp; the caller's tuple goes into the slot
reserve_slot_stamp(t, v) ==
  /\ wpc[t] = "stamp"
  /\ LET o == wslot[t][1]
         s == wslot[t][2]
     IN  table' = [table EXCEPT ![o + 1].slots[s] = StampSlot(t, v)]
  /\ wpc' = [wpc EXCEPT ![t] = "idle"]
  /\ wslot' = [wslot EXCEPT ![t] = NoSlot]
  /\ UNCHANGED <<claimed, ops, ctxVars, scanVars, sideVars, init_ret>>

commit_insert(t, o, s, cid) ==
  /\ wpc[t] = "idle"
  /\ ops < MaxOps
  /\ o \in 0..(Len(table) - 1)
  /\ table[o + 1].slots[s].txn = t
  /\ table[o + 1].slots[s].begin = MAX_CID
  /\ table' = [table EXCEPT ![o + 1].slots[s] = InsertCommitted(@, cid)]
  /\ ops' = ops + 1
  /\ UNCHANGED <<wpc, wslot, claimed, ctxVars, scanVars, sideVars, init_ret>>

commit_delete(t, o, s, cid) ==
  /\ wpc[t] = "idle"
  /\ ops < MaxOps
  /\ o \in 0..(Len(table) - 1)
  /\ table[o + 1].slots[s].txn = INVALID_TXN_ID
  /\ table[o + 1].slots[s].begin < cid
  /\ table[o + 1].slots[s].end = MAX_CID
  /\ table' = [table EXCEPT ![o + 1].slots[s] = DeleteCommitted(@, cid)]
  /\ ops' = ops + 1
  /\ UNCHANGED <<wpc, wslot, claimed, ctxVars, scanVars, sideVars, init_ret>>

abort(t, o, s) ==
  /\ wpc[t] = "idle"
  /\ ops < MaxOps
  /\ o \in 0..(Len(table) - 1)
  /\ table[o + 1].slots[s].txn = t
  /\ table' = [table EXCEPT ![o + 1].slots[s] = Aborted(@)]
  /\ ops' = ops + 1
  /\ UNCHANGED <<wpc, wslot, claimed, ctxVars, scanVars, sideVars, init_ret>>

WriterNext ==
  \/ AddTileGroup
  \/ \E t \in Txns, o \in 0..(MaxTileGroups - 1) : reserve_slot_claim(t, o)
  \/ \E t \in Txns, v \in Values : reserve_slot_stamp(t, v)
  \/ \E t \in Txns, o \in 0..(MaxTileGroups - 1), s \in SlotIds, cid \in Cids :
        commit_insert(t, o, s, cid)
  \/ \E t \in Txns, o \in 0..(MaxTileGroups - 1), s \in SlotIds, cid \in Cids :
        commit_delete(t, o, s, cid)
  \/ \E t \in Txns, o \in 0..(MaxTileGroups - 1), s \in SlotIds : abort(t, o, s)

\* ------------------------------------------------------- SeqScanExecutor
MaxCalls == MaxTileGroups + 2

\* the plan node names no columns
PlanColumnIds == <<>>

Predicates == {NoPredicate, "a > 0"}

\* the constructor, with the plan node and the executor context it is given;
\* n children are attached to the new executor
SeqScanExecutor(p, t, c, n) ==
  /\ exec_state = "absent"
  /\ exec_state' = "constructed"
  /\ predicate' = p
  /\ txn_id' = t
  /\ last_commit_id' = c
  /\ children' = n
  /\ UNCHANGED <<sideVars, hdrVars, column_ids, current_tile_group_offset,
                 table_tile_group_count, loopVars, output, ret, calls, emitted, init_ret>>

\* DInit without line 50: the offset of the previous scan is kept
DInitNoReset(status) ==
  /\ exec_state # "absent"
  /\ pc = "idle"
  /\ IF status
     THEN /\ column_ids' = PlanColumnIds
          /\ UNCHANGED current_tile_group_offset
          /\ exec_state' = "inited"
          /\ ret' = "none"
          /\ calls' = 0
          /\ emitted' = <<>>
     ELSE UNCHANGED <<exec_state, column_ids, current_tile_group_offset, ret, calls,
                     emitted>>
  /\ init_ret' = IF status THEN "true" ELSE "false"
  /\ UNCHANGED <<sideVars, hdrVars, ctxVars, table_tile_group_count, loopVars, output>>

\* AbstractScanExecutor::DInit binds predicate_ and column_ids_ from the plan
DInit(status) ==
  /\ exec_state # "absent"
  /\ pc = "idle"
  /\ IF status
     THEN /\ column_ids' = PlanColumnIds
          /\ current_tile_group_offset' = START_OID
          /\ exec_state' = "inited"
          /\ ret' = "none"
          /\ calls' = 0
          /\ emitted' = <<>>
     ELSE UNCHANGED <<exec_state, column_ids, current_tile_group_offset, ret, calls,
                     emitted>>
  /\ init_ret' = IF status THEN "true" ELSE "false"
  /\ UNCHANGED <<sideVars, hdrVars, ctxVars, table_tile_group_count, loopVars, output>>

\* the keep test written as in Mode A: every result that is not false passes
RetainedNotFalse(g, s, t, c, p) ==
  /\ IsVisible(g, s, t, c)
  /\ \/ p = NoPredicate
     \/ ~IsFalse(Evaluate(g.slots[s].val))

\* the loop without the visibility test of lines 125-127
RetainedUnchecked(g, s, t, c, p) ==
  \/ p = NoPredicate
  \/ IsTrue(Evaluate(g.slots[s].val))

\* a slot joins the position list (lines 125-134)
Retained(g, s, t, c, p) ==
  /\ IsVisible(g, s, t, c)
  /\ \/ p = NoPredicate
     \/ IsTrue(Evaluate(g.slots[s].val))

\* lines 88-116 with GetTileGroup(current_tile_group_offset_) and no increment
DExecuteBeginNoAdvance ==
  /\ pc = "idle"
  /\ exec_state = "inited"
  /\ children = 0
  /\ calls < MaxCalls
  /\ calls' = calls + 1
  /\ table_tile_group_count' = GetTileGroupCount
  /\ column_ids' = IF column_ids = <<>> THEN Iota(ColumnCount) ELSE column_ids
  /\ IF current_tile_group_offset = table_tile_group_count'
     THEN /\ ret' = "false"
          /\ UNCHANGED <<current_tile_group_offset, loopVars>>
     ELSE /\ tile_group' = current_tile_group_offset
          /\ current_tile_group_offset' = current_tile_group_offset
          /\ active_tuple_count' =
               GetNextTupleSlot(table[current_tile_group_offset + 1])
          /\ position_list' = <<>>
          /\ tuple_id' = 0
          /\ pc' = "scan"
          /\ UNCHANGED ret
  /\ UNCHANGED <<sideVars, hdrVars, ctxVars, exec_state, output, emitted, init_ret>>

\* Mode B, lines 88-116: bind the table, cache the count, pick the tile group
DExecuteBegin ==
  /\ pc = "idle"
  /\ exec_state = "inited"
  /\ children = 0
  /\ calls < MaxCalls
  /\ calls' = calls + 1
  /\ table_tile_group_count' = GetTileGroupCount
  /\ column_ids' = IF column_ids = <<>> THEN Iota(ColumnCount) ELSE column_ids
  /\ IF current_tile_group_offset = table_tile_group_count'
     THEN /\ ret' = "false"
          /\ UNCHANGED <<current_tile_group_offset, loopVars>>
     ELSE /\ tile_group' = current_tile_group_offset
          /\ current_tile_group_offset' = current_tile_group_offset + 1
          /\ active_tuple_count' =
               GetNextTupleSlot(table[current_tile_group_offset + 1])
          /\ position_list' = <<>>
          /\ tuple_id' = 0
          /\ pc' = "scan"
          /\ UNCHANGED ret
  /\ UNCHANGED <<sideVars, hdrVars, ctxVars, exec_state, output, emitted, init_ret>>

\* the evaluation at line 132 throws: the slot is visible and the predicate fails on it
Thrown(g, s, t, c, p) ==
  /\ IsVisible(g, s, t, c)
  /\ p # NoPredicate
  /\ EvaluateThrows(p, g.slots[s].val)

\* the loop bound read from the header again at every iteration
LoopBoundRereads(g, bound) == GetNextTupleSlot(g)

\* the loop bound of line 124: active_tuple_count, read once at line 116
LoopBound(g, bound) == bound

\* Mode B, lines 124-135: one iteration of the loop over the tile group; an
\* exception of Evaluate leaves DExecute with the position list destroyed
DExecuteLoop ==
  /\ pc = "scan"
  /\ tuple_id < LoopBound(table[tile_group + 1], active_tuple_count)
  /\ IF Thrown(table[tile_group + 1], tuple_id, txn_id, last_commit_id, predicate)
     THEN /\ pc' = "idle"
          /\ ret' = "throw"
          /\ position_list' = <<>>
          /\ UNCHANGED tuple_id
     ELSE /\ position_list' =
               IF Retained(table[tile_group + 1], tuple_id, txn_id, last_commit_id, predicate)
               THEN Append(position_list, tuple_id)
               ELSE position_list
          /\ tuple_id' = tuple_id + 1
          /\ UNCHANGED <<pc, ret>>
  /\ UNCHANGED <<sideVars, hdrVars, ctxVars, exec_state, column_ids, current_tile_group_offset,
                 table_tile_group_count, tile_group, active_tuple_count,
                 output, calls, emitted, init_ret>>

\* Mode B, lines 137-156: build the logical tile and hand it over
DExecuteEnd ==
  /\ pc = "scan"
  /\ tuple_id >= LoopBound(table[tile_group + 1], active_tuple_count)
  /\ output' = BuildLogicalTile(tile_group, position_list, column_ids)
  /\ emitted' = Append(emitted, [offset |-> tile_group, positions |-> position_list])
  /\ ret' = "true"
  /\ pc' = "idle"
  /\ UNCHANGED <<sideVars, hdrVars, ctxVars, exec_state, column_ids, current_tile_group_offset,
                 table_tile_group_count, tile_group, active_tuple_count, tuple_id,
                 position_list, calls, init_ret>>

\* the tiles a child operator can hand over
ChildTiles ==
  UNION {{[position_lists |-> <<Iota(n)>>, visible |-> vis, columns |-> <<>>,
           vals |-> vs] : vis \in [1..n -> BOOLEAN], vs \in [1..n -> Values]}
         : n \in 0..MaxChildLen}

\* lines 74-80, from position i on: the iterator yields the visible positions
RECURSIVE ApplyPredicate(_, _)
ApplyPredicate(tile, i) ==
  IF i > Len(tile.visible)
  THEN tile
  ELSE ApplyPredicate(IF tile.visible[i] /\ IsFalse(Evaluate(tile.vals[i]))
                      THEN RemoveVisibility(tile, i)
                      ELSE tile, i + 1)

\* Mode A with an empty tile of the child taken for the child's exhaustion
DExecuteChildEmptyExhausts(child_ret, tile) ==
  /\ pc = "idle"
  /\ exec_state = "inited"
  /\ children = 1
  /\ calls < MaxCalls
  /\ calls' = calls + 1
  /\ IF ~child_ret
     THEN /\ ret' = "false"
          /\ child_calls' = [Execute |-> 1, returned |-> FALSE, GetOutput |-> 0]
          /\ UNCHANGED <<output, child_tile>>
     ELSE /\ child_tile' = tile
          /\ child_calls' = [Execute |-> 1, returned |-> TRUE, GetOutput |-> 1]
          /\ IF Len(tile.visible) = 0
             THEN ret' = "false" /\ UNCHANGED output
             ELSE /\ output' = IF predicate # NoPredicate THEN ApplyPredicate(tile, 1) ELSE tile
                  /\ ret' = "true"
  /\ UNCHANGED <<slotVars, tileVars, ownVars, bridgeVars, init_ret, hdrVars, ctxVars, exec_state, column_ids,
                 current_tile_group_offset, table_tile_group_count, loopVars, emitted>>

\* Mode A, lines 62-86; the child's Execute() returns child_ret, its output is tile
DExecuteChild(child_ret, tile) ==
  /\ pc = "idle"
  /\ exec_state = "inited"
  /\ children = 1
  /\ calls < MaxCalls
  /\ calls' = calls + 1
  /\ IF ~child_ret
     THEN /\ ret' = "false"
          /\ child_calls' = [Execute |-> 1, returned |-> FALSE, GetOutput |-> 0]
          /\ UNCHANGED <<output, child_tile>>
     ELSE /\ child_tile' = tile
          /\ child_calls' = [Execute |-> 1, returned |-> TRUE, GetOutput |-> 1]
          /\ output' = IF predicate # NoPredicate THEN ApplyPredicate(tile, 1) ELSE tile
          /\ ret' = "true"
  /\ UNCHANGED <<slotVars, tileVars, ownVars, bridgeVars, init_ret, hdrVars, ctxVars, exec_state, column_ids,
                 current_tile_group_offset, table_tile_group_count, loopVars, emitted>>

WritersIdle == \A t \in Txns : wpc[t] = "idle"

\* scans over a quiescent table: the writers ran before the executor was made
Next ==
  \/ exec_state = "absent" /\ WriterNext
  \/ WritersIdle /\ \E p \in Predicates, c \in 0..MaxCid :
                      SeqScanExecutor(p, ObserverTxn, c, 0)
  \/ DInit(TRUE)
  \/ DExecuteBegin
  \/ DExecuteLoop
  \/ DExecuteEnd

Spec == Init /\ [][Next]_vars

\* a scan over the logical tiles of one child
NextA ==
  \/ \E p \in Predicates, c \in 0..MaxCid : SeqScanExecutor(p, ObserverTxn, c, 1)
  \/ \E status \in BOOLEAN : DInit(status)
  \/ \E child_ret \in BOOLEAN, tile \in ChildTiles : DExecuteChild(child_ret, tile)

SpecA == Init /\ [][NextA]_vars

\* ------------------------------------------ the caller of the executor
\* the table is loaded by the observer's own transaction before the scan
LoaderNext ==
  /\ exec_state = "absent"
  /\ \/ AddTileGroup
     \/ \E o \in 0..(MaxTileGroups - 1) : reserve_slot_claim(ObserverTxn, o)
     \/ \E v \in Values : reserve_slot_stamp(ObserverTxn, v)

\* AbstractExecutor::GetOutput: the caller takes the tile and owns it
GetOutput ==
  /\ pc = "idle"
  /\ output # NoTile
  /\ held = NoTile
  /\ held' = output
  /\ output' = NoTile
  /\ UNCHANGED <<hdrVars, ctxVars, exec_state, column_ids, current_tile_group_offset,
                 table_tile_group_count, loopVars, ret, calls, emitted, child_tile,
                 slotVars, tileVars, freed, callVars, bridgeVars>>

\* a LogicalTile wrapped around a tile outside the table
WrapTiles(own_base_tile) ==
  /\ held = NoTile
  /\ freed[TempTile] = 0
  /\ held' = [position_lists |-> <<<<>>>>, visible |-> <<>>,
              columns |-> <<[tile |-> TempTile, own_base_tile |-> own_base_tile,
                             tile_column_id |-> 0, position_list_idx |-> 0]>>,
              vals |-> <<>>]
  /\ UNCHANGED <<bridgeVars, hdrVars, ctxVars, scanVars, child_tile, slotVars, tileVars, freed,
                 callVars>>

\* the base tiles a LogicalTile deletes when it is dropped
OwnedBaseTiles(tile) ==
  {tile.columns[i].tile : i \in {k \in 1..Len(tile.columns) : tile.columns[k].own_base_tile}}

\* ~LogicalTile: the caller drops the tile it holds
DropLogicalTile ==
  /\ held # NoTile
  /\ freed' = [b \in BaseTiles |-> IF b \in OwnedBaseTiles(held) THEN freed[b] + 1 ELSE freed[b]]
  /\ held' = NoTile
  /\ UNCHANGED <<hdrVars, ctxVars, scanVars, child_tile, slotVars, tileVars, callVars,
                 bridgeVars>>

\* scans whose outputs the caller takes and drops
NextDrop ==
  \/ LoaderNext
  \/ WritersIdle /\ \E p \in Predicates : SeqScanExecutor(p, ObserverTxn, 0, 0)
  \/ DInit(TRUE)
  \/ DExecuteBegin
  \/ DExecuteLoop
  \/ DExecuteEnd
  \/ GetOutput
  \/ \E own_base_tile \in BOOLEAN : WrapTiles(own_base_tile)
  \/ DropLogicalTile

SpecDrop == Init /\ [][NextDrop]_vars

\* tile groups are appended to the table between the calls of a scan
NextGrow ==
  \/ LoaderNext
  \/ WritersIdle /\ \E p \in Predicates : SeqScanExecutor(p, ObserverTxn, 0, 0)
  \/ DInit(TRUE)
  \/ DExecuteBegin
  \/ DExecuteLoop
  \/ DExecuteEnd
  \/ exec_state = "inited" /\ calls >= 1 /\ AddTileGroup

SpecGrow == Init /\ [][NextGrow]_vars

\* scans started again by init(), and init() calls whose base initialization fails
NextInit ==
  \/ LoaderNext
  \/ WritersIdle /\ \E p \in Predicates : SeqScanExecutor(p, ObserverTxn, 0, 0)
  \/ \E status \in BOOLEAN : DInit(status)
  \/ DExecuteBegin
  \/ DExecuteLoop
  \/ DExecuteEnd

SpecInit == Init /\ [][NextInit]_vars

\* the transaction that writes while the observer scans
WriterTxn == MaxTxn

\* the header's callers run while the scan runs
NextConc ==
  \/ \E o \in 0..(MaxTileGroups - 1) : reserve_slot_claim(WriterTxn, o)
  \/ \E v \in Values : reserve_slot_stamp(WriterTxn, v)
  \/ \E o \in 0..(MaxTileGroups - 1), s \in SlotIds : commit_insert(WriterTxn, o, s, MaxCid)
  \/ \E o \in 0..(MaxTileGroups - 1), s \in SlotIds : commit_delete(WriterTxn, o, s, MaxCid)
  \/ \E o \in 0..(MaxTileGroups - 1), s \in SlotIds : abort(WriterTxn, o, s)
  \/ \E p \in Predicates : SeqScanExecutor(p, ObserverTxn, MaxCid, 0)
  \/ DInit(TRUE)
  \/ DExecuteBegin
  \/ DExecuteLoop
  \/ DExecuteEnd

SpecConc == InitConc /\ [][NextConc]_vars

\* Mode A scans of one context
NextChild ==
  \/ \E p \in Predicates : SeqScanExecutor(p, ObserverTxn, 0, 1)
  \/ DInit(TRUE)
  \/ \E child_ret \in BOOLEAN, tile \in ChildTiles : DExecuteChild(child_ret, tile)

SpecChild == Init /\ [][NextChild]_vars

\* scans whose predicate divides by the attribute
NextErr ==
  \/ LoaderNext
  \/ WritersIdle /\ SeqScanExecutor("1 / a > 0", ObserverTxn, 0, 0)
  \/ DInit(TRUE)
  \/ DExecuteBegin
  \/ DExecuteLoop
  \/ DExecuteEnd

SpecErr == Init /\ [][NextErr]_vars

\* ------------------------------ one header slot under its per-slot lock
otherVars == <<hdrVars, ctxVars, scanVars, child_tile, tileVars, ownVars, callVars, bridgeVars>>

Triple(r) == <<r.txn, r.begin, r.end>>

\* the stamp of reserve_slot, made while holding the slot's lock
slot_reserve(t) ==
  /\ hslot = FreeSlot
  /\ lock = "free"
  /\ hslot' = StampSlot(t, NullValue)
  /\ UNCHANGED <<lock, cpc, cop, ccid, rpc, rtxn, rcid, rread, rret, pre, post, otherVars>>

\* a transaction starts commit_insert(slot, cid) or commit_delete(slot, cid)
commit_call(op, cid) ==
  /\ cpc = "idle"
  /\ \/ /\ op = "commit_insert"
        /\ hslot.txn # INVALID_TXN_ID
        /\ hslot.begin = MAX_CID
        /\ post' = InsertCommitted(hslot, cid)
     \/ /\ op = "commit_delete"
        /\ hslot.txn = INVALID_TXN_ID
        /\ hslot.begin < cid
        /\ hslot.end = MAX_CID
        /\ post' = DeleteCommitted(hslot, cid)
  /\ pre' = hslot
  /\ cop' = op
  /\ ccid' = cid
  /\ cpc' = "lock"
  /\ UNCHANGED <<lock, hslot, rpc, rtxn, rcid, rread, rret, otherVars>>

commit_lock ==
  /\ cpc = "lock"
  /\ lock = "free"
  /\ lock' = "committer"
  /\ cpc' = "cid"
  /\ UNCHANGED <<hslot, cop, ccid, rpc, rtxn, rcid, rread, rret, pre, post, otherVars>>

commit_write_cid ==
  /\ cpc = "cid"
  /\ hslot' = IF cop = "commit_insert"
              THEN [hslot EXCEPT !.begin = ccid]
              ELSE [hslot EXCEPT !.end = ccid]
  /\ cpc' = "txn"
  /\ UNCHANGED <<lock, cop, ccid, rpc, rtxn, rcid, rread, rret, pre, post, otherVars>>

commit_clear_txn ==
  /\ cpc = "txn"
  /\ hslot' = [hslot EXCEPT !.txn = INVALID_TXN_ID]
  /\ cpc' = "unlock"
  /\ UNCHANGED <<lock, cop, ccid, rpc, rtxn, rcid, rread, rret, pre, post, otherVars>>

commit_unlock ==
  /\ cpc = "unlock"
  /\ lock' = "free"
  /\ cpc' = "idle"
  /\ UNCHANGED <<hslot, cop, ccid, rpc, rtxn, rcid, rread, rret, pre, post, otherVars>>

is_visible_call(t, c) ==
  /\ rpc = "idle"
  /\ rtxn' = t
  /\ rcid' = c
  /\ rread' = <<>>
  /\ rpc' = "lock"
  /\ UNCHANGED <<lock, hslot, cpc, cop, ccid, rret, pre, post, otherVars>>

\* an is_visible that reads the fields without waiting for the lock
LockGrantedAlways(l) == TRUE

\* the caller may take the lock when it is free
LockGranted(l) == l = "free"

is_visible_lock ==
  /\ rpc = "lock"
  /\ LockGranted(lock)
  /\ lock' = "reader"
  /\ rpc' = "read"
  /\ UNCHANGED <<hslot, cpc, cop, ccid, rtxn, rcid, rread, rret, pre, post, otherVars>>

\* reads tuple_txn_id, then begin_cid, then end_cid
is_visible_read ==
  /\ rpc = "read"
  /\ rread' = Append(rread, Triple(hslot)[Len(rread) + 1])
  /\ rpc' = IF Len(rread) = 2 THEN "return" ELSE "read"
  /\ UNCHANGED <<lock, hslot, cpc, cop, ccid, rtxn, rcid, rret, pre, post, otherVars>>

is_visible_return ==
  /\ rpc = "return"
  /\ rret' = VisibleTriple(rread[1], rread[2], rread[3], rtxn, rcid)
  /\ lock' = "free"
  /\ rpc' = "idle"
  /\ UNCHANGED <<hslot, cpc, cop, ccid, rtxn, rcid, rread, pre, post, otherVars>>

NextSlot ==
  \/ \E t \in Txns : slot_reserve(t)
  \/ \E op \in {"commit_insert", "commit_delete"}, cid \in Cids : commit_call(op, cid)
  \/ commit_lock
  \/ commit_write_cid
  \/ commit_clear_txn
  \/ commit_unlock
  \/ \E t \in Txns, c \in 0..MaxCid : is_visible_call(t, c)
  \/ is_visible_lock
  \/ is_visible_read
  \/ is_visible_return

SpecSlot == Init /\ [][NextSlot]_vars

\* ---------------------------------------------------------- callers of Tile
ExecVars == <<hdrVars, ctxVars, scanVars, child_tile, slotVars, ownVars, callVars, bridgeVars>>

Tile(i, cc, tuple_count) ==
  /\ tiles[i] = NoTile
  /\ tuple_count > 0
  /\ tiles' = [tiles EXCEPT ![i] = NewTile(cc, tuple_count)]
  /\ UNCHANGED <<out, ser, des, eq, ExecVars>>

InsertTuple(i, tuple_slot_id, tuple) ==
  /\ tiles[i] # NoTile
  /\ tuple_slot_id < tiles[i].num_tuple_slots
  /\ tuple \in TuplesOf(tiles[i].column_count)
  /\ tiles' = [tiles EXCEPT ![i].data[tuple_slot_id + 1] = tuple]
  /\ eq' = [k \in TileIds |-> "none"]
  /\ UNCHANGED <<out, ser, des, ExecVars>>

\* the SerializeOutput buffers the callers pass: empty, or holding a byte
Outputs == {<<>>, <<0>>}

Serialized(call, r, buffer, num_tuples) ==
  /\ des.ret = "none"
  /\ tiles' = [tiles EXCEPT ![1] = r.tile]
  /\ out' = r.out
  /\ ser' = [count |-> ser.count + 1, call |-> call, pos |-> Position(buffer), n |-> num_tuples,
             ret |-> r.ret, headers |-> Append(ser.headers, r.header)]
  /\ UNCHANGED <<des, eq, ExecVars>>

CallSerializeTo(buffer, num_tuples, NDEBUG) ==
  /\ tiles[1] # NoTile
  /\ ser.count < MaxSerializations
  /\ ser.ret # "abort"
  /\ Serialized("SerializeTo", SerializeTo(tiles[1], buffer, num_tuples, NDEBUG), buffer,
                num_tuples)

CallSerializeTuplesTo(buffer, tuples) ==
  /\ tiles[1] # NoTile
  /\ ser.count < MaxSerializations
  /\ ser.ret # "abort"
  /\ tuples # <<>>
  /\ \A k \in 1..Len(tuples) : tuples[k] \in TuplesOf(tiles[1].column_count)
  /\ Serialized("SerializeTuplesTo", SerializeTuplesTo(tiles[1], buffer, tuples), buffer,
                Len(tuples))

\* tile 2 loads from the buffer of the last serialization, read from offset from
CallDeserializeTuplesFrom(from, NDEBUG) ==
  /\ tiles[2] # NoTile
  /\ ser.ret = "true"
  /\ des.ret = "none"
  /\ LET r == DeserializeTuplesFrom(tiles[2], SubSeq(out, ser.pos + 1, Len(out)), from, NDEBUG)
     IN  /\ tiles' = [tiles EXCEPT ![2] = r.tile]
         /\ des' = [ret |-> r.ret, from |-> from, before |-> tiles[2]]
  /\ UNCHANGED <<out, ser, eq, ExecVars>>

\* this == other, with tile i as this
CallEquals(i) ==
  /\ \A k \in TileIds : tiles[k] # NoTile
  /\ eq[i] = "none"
  /\ eq' = [eq EXCEPT ![i] = IF TileEquals(tiles[i], tiles[3 - i]) THEN "true" ELSE "false"]
  /\ UNCHANGED <<tiles, out, ser, des, ExecVars>>

\* one tile serialized into a buffer, a second tile loading from it
NextTile ==
  \/ \E i \in TileIds, cc \in ColumnCounts, n \in 1..MaxTupleSlots : Tile(i, cc, n)
  \/ ser.count = 0 /\ \E s \in 0..(MaxTupleSlots - 1), v \in TupleBytes :
       tiles[1] # NoTile /\ InsertTuple(1, s, [i \in 1..tiles[1].column_count |-> v + i - 1])
  \/ \E buffer \in Outputs, n \in 0..(MaxTupleSlots + 1), NDEBUG \in BOOLEAN :
       CallSerializeTo(buffer, n, NDEBUG)
  \/ \E buffer \in Outputs, v \in TupleBytes :
       tiles[1] # NoTile
         /\ CallSerializeTuplesTo(buffer, <<[i \in 1..tiles[1].column_count |-> v + i - 1]>>)
  \/ \E from \in {0, 4}, NDEBUG \in BOOLEAN : CallDeserializeTuplesFrom(from, NDEBUG)

SpecTile == Init /\ [][NextTile]_vars

\* two tiles filled by their callers and compared
NextEq ==
  \/ \E i \in TileIds, cc \in ColumnCounts, n \in 1..MaxTupleSlots : Tile(i, cc, n)
  \/ \E k \in TileIds, s \in 0..(MaxTupleSlots - 1), v \in TupleBytes :
       tiles[k] # NoTile /\ InsertTuple(k, s, [i \in 1..tiles[k].column_count |-> v + i - 1])
  \/ \E i \in TileIds : CallEquals(i)

SpecEq == Init /\ [][NextEq]_vars

\* -------------------------------------------------- catalog bridge calls
nonBridgeVars == <<hdrVars, ctxVars, scanVars, child_tile, slotVars, tileVars, ownVars, callVars>>

heap_open(h, r) == [h EXCEPT ![r] = @ + 1]

heap_close(h, r) == [h EXCEPT ![r] = @ - 1]

\* the backend calls fn, whose first statement is at line; after an
\* elog(ERROR) the backend is in error recovery and calls nothing
Enter(fn, line) ==
  /\ bfn = "none"
  /\ bret.kind # "error"
  /\ bcalls < MaxBridgeCalls
  /\ bfn' = fn
  /\ bpc' = line
  /\ bcalls' = bcalls + 1
  /\ UNCHANGED <<heap_tuple, bscan, bstatus, xact, heap, bret>>

At(fn, line) == bfn = fn /\ bpc = line

Goto(line) == bpc' = line /\ UNCHANGED <<bfn, bret, bcalls>>

\* control leaves the function at line, by a return or by elog(ERROR); the
\* locals die
Leave(kind, line) ==
  /\ bfn' = "none"
  /\ bpc' = 0
  /\ bret' = [fn |-> bfn, kind |-> kind, line |-> line]
  /\ heap_tuple' = "NULL"
  /\ bscan' = 0
  /\ bstatus' = "unset"
  /\ UNCHANGED bcalls

\* heap_getnext on the pg_class or pg_database scan: a heap_tuple, or the end
HeapGetNext(valid) ==
  /\ valid => bscan < MaxRelations
  /\ heap_tuple' = IF valid THEN "valid" ELSE "NULL"
  /\ bscan' = IF valid THEN bscan + 1 ELSE bscan

\* lines 46-66
GetPGClassTupleForRelationOid ==
  /\ \/ Enter("GetPGClassTupleForRelationOid", 50)
     \/ /\ At("GetPGClassTupleForRelationOid", 50)
        /\ xact' = "started"
        /\ Goto(53)
        /\ UNCHANGED <<heap_tuple, bscan, bstatus, heap>>
     \/ /\ At("GetPGClassTupleForRelationOid", 53)
        /\ heap' = heap_open(heap, "pg_class")
        /\ Goto(56)
        /\ UNCHANGED <<heap_tuple, bscan, bstatus, xact>>
     \/ /\ At("GetPGClassTupleForRelationOid", 56)
        /\ \E valid \in BOOLEAN : heap_tuple' = IF valid THEN "valid" ELSE "NULL"
        /\ Goto(62)
        /\ UNCHANGED <<bscan, bstatus, xact, heap>>
     \/ /\ At("GetPGClassTupleForRelationOid", 62)
        /\ heap' = heap_close(heap, "pg_class")
        /\ Goto(63)
        /\ UNCHANGED <<heap_tuple, bscan, bstatus, xact>>
     \/ /\ At("GetPGClassTupleForRelationOid", 63)
        /\ xact' = "default"
        /\ Leave("return", 65)
        /\ UNCHANGED heap
  /\ UNCHANGED nonBridgeVars

\* lines 234-262
GetTableList ==
  /\ \/ Enter("GetTableList", 239)
     \/ /\ At("GetTableList", 239)
        /\ xact' = "started"
        /\ Goto(242)
        /\ UNCHANGED <<heap_tuple, bscan, bstatus, heap>>
     \/ /\ At("GetTableList", 242)
        /\ heap' = heap_open(heap, "pg_class")
        /\ Goto(245)
        /\ UNCHANGED <<heap_tuple, bscan, bstatus, xact>>
     \/ /\ At("GetTableList", 245)
        /\ \E valid \in BOOLEAN :
             /\ HeapGetNext(valid)
             /\ Goto(IF valid THEN 245 ELSE 258)
        /\ UNCHANGED <<bstatus, xact, heap>>
     \/ /\ At("GetTableList", 258)
        /\ heap' = heap_close(heap, "pg_class")
        /\ Goto(261)
        /\ UNCHANGED <<heap_tuple, bscan, bstatus, xact>>
     \/ /\ At("GetTableList", 261)
        /\ xact' = "default"
        /\ Leave("return", 262)
        /\ UNCHANGED heap
  /\ UNCHANGED nonBridgeVars

\* lines 267-287
GetDatabaseList ==
  /\ \/ Enter("GetDatabaseList", 272)
     \/ /\ At("GetDatabaseList", 272)
        /\ xact' = "started"
        /\ Goto(275)
        /\ UNCHANGED <<heap_tuple, bscan, bstatus, heap>>
     \/ /\ At("GetDatabaseList", 275)
        /\ heap' = heap_open(heap, "pg_database")
        /\ Goto(278)
        /\ UNCHANGED <<heap_tuple, bscan, bstatus, xact>>
     \/ /\ At("GetDatabaseList", 278)
        /\ \E valid \in BOOLEAN :
             /\ HeapGetNext(valid)
             /\ Goto(IF valid THEN 278 ELSE 283)
        /\ UNCHANGED <<bstatus, xact, heap>>
     \/ /\ At("GetDatabaseList", 283)
        /\ heap' = heap_close(heap, "pg_database")
        /\ Goto(286)
        /\ UNCHANGED <<heap_tuple, bscan, bstatus, xact>>
     \/ /\ At("GetDatabaseList", 286)
        /\ xact' = "default"
        /\ Leave("return", 287)
        /\ UNCHANGED heap
  /\ UNCHANGED nonBridgeVars

\* lines 309-312: the cache lookup failed
LookupFailed ==
  /\ Leave("return", 312)
  /\ UNCHANGED <<xact, heap>>

\* lines 299-323
SetNumberOfTuples ==
  /\ \/ Enter("SetNumberOfTuples", 304)
     \/ /\ At("SetNumberOfTuples", 304)
        /\ xact' = "started"
        /\ Goto(307)
        /\ UNCHANGED <<heap_tuple, bscan, bstatus, heap>>
     \/ /\ At("SetNumberOfTuples", 307)
        /\ heap' = heap_open(heap, "pg_class")
        /\ Goto(309)
        /\ UNCHANGED <<heap_tuple, bscan, bstatus, xact>>
     \/ /\ At("SetNumberOfTuples", 309)
        /\ \E valid \in BOOLEAN :
             IF valid
             THEN /\ heap_tuple' = "valid"
                  /\ Goto(320)
                  /\ UNCHANGED <<bscan, bstatus, xact, heap>>
             ELSE LookupFailed
     \/ /\ At("SetNumberOfTuples", 320)
        /\ heap' = heap_close(heap, "pg_class")
        /\ Goto(322)
        /\ UNCHANGED <<heap_tuple, bscan, bstatus, xact>>
     \/ /\ At("SetNumberOfTuples", 322)
        /\ xact' = "default"
        /\ Leave("return", 323)
        /\ UNCHANGED heap
  /\ UNCHANGED nonBridgeVars

\* lines 330-548; the scans of pg_attribute open and close no relation
BootstrapPeloton ==
  /\ \/ Enter("BootstrapPeloton", 343)
     \/ /\ At("BootstrapPeloton", 343)
        /\ xact' = "started"
        /\ Goto(346)
        /\ UNCHANGED <<heap_tuple, bscan, bstatus, heap>>
     \/ /\ At("BootstrapPeloton", 346)
        /\ heap' = heap_open(heap_open(heap, "pg_class"), "pg_attribute")
        /\ Goto(362)
        /\ UNCHANGED <<heap_tuple, bscan, bstatus, xact>>
     \/ /\ At("BootstrapPeloton", 362)
        /\ \E valid \in BOOLEAN :
             /\ HeapGetNext(valid)
             /\ Goto(IF valid THEN 373 ELSE 539)
        /\ UNCHANGED <<bstatus, xact, heap>>
     \/ /\ At("BootstrapPeloton", 373)
        /\ \E public \in BOOLEAN, relkind \in {"r", "i", "v"}, attnum \in 0..1,
              created \in BOOLEAN :
             IF ~public \/ relkind = "v"
             THEN /\ Goto(362)
                  /\ UNCHANGED <<heap_tuple, bscan, bstatus, xact, heap>>
             ELSE IF relkind = "r"
             THEN IF created
                  THEN /\ bstatus' = "true"
                       /\ Goto(362)
                       /\ UNCHANGED <<heap_tuple, bscan, xact, heap>>
                  ELSE /\ Leave("error", IF attnum > 0 THEN 455 ELSE 522)
                       /\ UNCHANGED <<xact, heap>>
             ELSE IF attnum > 0
                  THEN /\ heap' = heap_open(heap, "pg_index")
                       /\ Goto(475)
                       /\ UNCHANGED <<heap_tuple, bscan, bstatus, xact>>
                  ELSE /\ Leave("error", 527)
                       /\ UNCHANGED <<xact, heap>>
     \/ /\ At("BootstrapPeloton", 475)
        /\ \E found \in BOOLEAN, garbage \in BOOLEAN :
             LET read == IF bstatus = "unset" THEN garbage ELSE bstatus = "true"
             IN  IF found /\ ~read
                 THEN /\ Leave("error", 493)
                      /\ UNCHANGED <<xact, heap>>
                 ELSE /\ Goto(499)
                      /\ UNCHANGED <<heap_tuple, bscan, bstatus, xact, heap>>
     \/ /\ At("BootstrapPeloton", 499)
        /\ heap' = heap_close(heap, "pg_index")
        /\ Goto(362)
        /\ UNCHANGED <<heap_tuple, bscan, bstatus, xact>>
     \/ /\ At("BootstrapPeloton", 539)
        /\ heap' = heap_close(heap_close(heap, "pg_attribute"), "pg_class")
        /\ Goto(543)
        /\ UNCHANGED <<heap_tuple, bscan, bstatus, xact>>
     \/ /\ At("BootstrapPeloton", 543)
        /\ xact' = "default"
        /\ Leave("return", 547)
        /\ UNCHANGED heap
  /\ UNCHANGED nonBridgeVars

NextBridge ==
  \/ GetPGClassTupleForRelationOid
  \/ GetTableList
  \/ GetDatabaseList
  \/ SetNumberOfTuples
  \/ BootstrapPeloton

SpecBridge == Init /\ [][NextBridge]_vars

\* ------------------------------------------------------------ properties
Offsets == 0..(Len(table) - 1)

ScanFinished ==
  /\ exec_state = "inited"
  /\ children = 0
  /\ pc = "idle"
  /\ ret = "false"

PairsOf(batch) == [i \in 1..Len(batch.positions) |-> <<batch.offset, batch.positions[i]>>]

RECURSIVE Concatenated(_)
Concatenated(batches) ==
  IF batches = <<>> THEN <<>> ELSE PairsOf(Head(batches)) \o Concatenated(Tail(batches))

PairLess(a, b) == a[1] < b[1] \/ (a[1] = b[1] /\ a[2] < b[2])

PredicateHolds(p, v) == p = NoPredicate \/ Evaluate(v) = "true"

VisibleAndMatching ==
  {q \in Offsets \X SlotIds :
     /\ IsVisible(table[q[1] + 1], q[2], txn_id, last_commit_id)
     /\ PredicateHolds(predicate, table[q[1] + 1].slots[q[2]].val)}

\* C1: when a Mode B scan has run until execute() returned false, the
\* concatenation of the emitted position lists holds exactly the pairs
\* (tile_group_offset, slot) that are visible to the observer and pass the
\* predicate, in strictly ascending (tile_group_offset, slot) order.
C1_ScanComplete ==
  ScanFinished =>
    LET e == Concatenated(emitted)
    IN  /\ {e[i] : i \in 1..Len(e)} = VisibleAndMatching
        /\ \A i \in 1..(Len(e) - 1) : PairLess(e[i], e[i + 1])

C1_Witness ==
  /\ ScanFinished
  /\ predicate # NoPredicate
  /\ Len(emitted) = 2
  /\ \A i \in 1..2 : emitted[i].positions # <<>>

ReservedBy(r, a) == r.txn = a /\ a # INVALID_TXN_ID /\ r.begin = MAX_CID

ExecuteReturnedTrue ==
  /\ exec_state = "inited"
  /\ children = 0
  /\ pc = "idle"
  /\ ret = "true"

InOutput(s) == \E i \in 1..Len(output.position_lists[1]) : output.position_lists[1][i] = s

\* C3: a slot reserved by transaction A and not yet committed is visible to A
\* and to no other transaction B, at every last_commit_id and whatever the
\* other writers do in between; a scan by another transaction that has just
\* processed the slot's tile group has not emitted the slot, and a scan by A
\* has emitted it (when the scan's predicate, if any, accepts the tuple).
\* The header rule holds initially and after every step that changes the
\* table, hence in every state.
C3_HeaderRule ==
  \A o \in Offsets : \A s \in SlotIds :
    LET r == table[o + 1].slots[s]
    IN  ReservedBy(r, r.txn) =>
          \A c \in 0..MaxCid :
            /\ IsVisible(table[o + 1], s, r.txn, c)
            /\ \A b \in Txns \ {r.txn} : ~IsVisible(table[o + 1], s, b, c)

C3_HeaderStep == table' # table => C3_HeaderRule'

C3_ScanRule ==
  ExecuteReturnedTrue =>
    \A s \in SlotIds :
      LET r == table[tile_group + 1].slots[s]
      IN  ReservedBy(r, r.txn) =>
            /\ r.txn # txn_id => ~InOutput(s)
            /\ (r.txn = txn_id /\ PredicateHolds(predicate, r.val)) => InOutput(s)

C3_ReservedSlotIsolation == C3_HeaderRule /\ [][C3_HeaderStep]_vars /\ [](C3_ScanRule)

C3_Witness ==
  /\ ExecuteReturnedTrue
  /\ \E s1 \in SlotIds : \E s2 \in SlotIds :
       /\ ReservedBy(table[tile_group + 1].slots[s1], txn_id)
       /\ InOutput(s1)
       /\ \E b \in Txns \ {txn_id} : ReservedBy(table[tile_group + 1].slots[s2], b)
       /\ ~InOutput(s2)

\* C5: when a Mode B execute() has returned true, the offset has advanced by
\* one for each such call since init(), and the output is one LogicalTile with
\* a single position list: the ascending list of the slots below
\* next_tuple_slot of the tile group just passed that are visible to the
\* observer and pass the predicate.
C5_OneTileGroupPerCall ==
  /\ (exec_state = "inited" /\ children = 0) =>
       current_tile_group_offset = Len(emitted) + (IF pc = "scan" THEN 1 ELSE 0)
  /\ ExecuteReturnedTrue =>
       LET o == current_tile_group_offset - 1
           g == table[o + 1]
           pl == output.position_lists
       IN  /\ emitted[Len(emitted)].offset = o
           /\ Len(pl) = 1
           /\ {pl[1][i] : i \in 1..Len(pl[1])} =
                {s \in SlotIds : /\ s < g.next
                                 /\ IsVisible(g, s, txn_id, last_commit_id)
                                 /\ PredicateHolds(predicate, g.slots[s].val)}
           /\ \A i \in 1..(Len(pl[1]) - 1) : pl[1][i] < pl[1][i + 1]
           /\ \A i \in 1..Len(output.columns) : output.columns[i].tile[1] = o

C5_Witness ==
  /\ ExecuteReturnedTrue
  /\ current_tile_group_offset = 2
  /\ output.position_lists[1] # <<>>
  /\ \E s \in SlotIds : s < table[2].next /\ ~InOutput(s)

\* C6: over a table of N tile groups, the first N execute() calls after init()
\* return true and every later call returns false; with N = 0 no output is
\* ever set; a call made after a false return returns false again and leaves
\* current_tile_group_offset and the output as they were.
C6_Counts ==
  (exec_state = "inited" /\ children = 0 /\ pc = "idle" /\ calls >= 1) =>
     /\ calls <= Len(table) => (ret = "true" /\ current_tile_group_offset = calls)
     /\ calls > Len(table) => (ret = "false" /\ current_tile_group_offset = Len(table))
     /\ Len(table) = 0 => output = NoTile

C6_AfterFalse ==
  (ret = "false" /\ calls' = calls + 1) =>
     /\ ret' = "false"
     /\ pc' = "idle"
     /\ current_tile_group_offset' = current_tile_group_offset
     /\ output' = output

C6_Exhaustion == [](C6_Counts) /\ [][C6_AfterFalse]_vars

C6_Witness ==
  /\ exec_state = "inited"
  /\ Len(table) = MaxTileGroups
  /\ calls = Len(table) + 2
  /\ ret = "false"
  /\ output # NoTile

\* C7: next_free_slot never exceeds slot_capacity; no slot is claimed by two
\* reserve_slot calls; a call that succeeds claims the slot next_free_slot
\* pointed at, below slot_capacity, and returns it stamped with the caller's
\* txn id and begin_cid = end_cid = MAX_CID; a call returns Full exactly when
\* no capacity remains, and then changes no slot and no next_free_slot.
C7_Bounded ==
  /\ \A o \in Offsets : table[o + 1].next <= SlotCapacity
  /\ \A o \in Offsets : \A s \in SlotIds : claimed[o][s] <= 1
  /\ \A t \in Txns : wpc[t] = "stamp" =>
       /\ wslot[t][2] \in SlotIds
       /\ wslot[t][2] < table[wslot[t][1] + 1].next
  /\ \A t \in Txns : \A u \in Txns \ {t} :
       (wpc[t] = "stamp" /\ wpc[u] = "stamp") => wslot[t] # wslot[u]
  /\ \A t \in Txns : wslot[t][2] = Full => table[wslot[t][1] + 1].next = SlotCapacity

C7_Calls ==
  \A t \in Txns :
    /\ (wpc[t] = "idle" /\ wpc'[t] = "stamp") =>
         LET o == wslot'[t][1]
         IN  /\ table[o + 1].next < SlotCapacity
             /\ wslot'[t][2] = table[o + 1].next
             /\ table'[o + 1].next = table[o + 1].next + 1
    /\ (wpc[t] = "stamp" /\ wpc'[t] = "idle") =>
         LET r == table'[wslot[t][1] + 1].slots[wslot[t][2]]
         IN  r.txn = t /\ r.begin = MAX_CID /\ r.end = MAX_CID
    /\ (wslot'[t] # wslot[t] /\ wslot'[t][2] = Full) => table' = table
    /\ (wpc[t] = "idle" /\ wpc'[t] = "idle" /\ wslot'[t] # wslot[t]) =>
         wslot'[t][2] = Full

C7_ReserveSlot == [](C7_Bounded) /\ [][C7_Calls]_vars

C7_Witness ==
  \E t \in Txns : \E u \in Txns \ {t} :
    /\ wslot[t][2] = Full
    /\ wpc[u] = "stamp"
    /\ wslot[u][1] = wslot[t][1]

AbortedSlot(r) == r.txn = INVALID_TXN_ID /\ r.begin = MAX_CID /\ r.end = MAX_CID

\* C9: abort(slot) leaves the slot with tuple_txn_id = INVALID_TXN_ID and
\* begin_cid = end_cid = MAX_CID, leaves next_free_slot as it was with the
\* slot still below it, and makes the slot invisible to every observer; no
\* batch of a scan holds a slot in that state.
C9_Abort ==
  \A t \in Txns : \A o \in 0..(MaxTileGroups - 1) : \A s \in SlotIds :
    abort(t, o, s) =>
      /\ AbortedSlot(table'[o + 1].slots[s])
      /\ table'[o + 1].next = table[o + 1].next
      /\ s < GetNextTupleSlot(table'[o + 1])
      /\ \A b \in Txns : \A c \in 0..MaxCid : ~IsVisible(table'[o + 1], s, b, c)

C9_NeverEmitted ==
  (exec_state = "inited" /\ children = 0) =>
     \A i \in 1..Len(emitted) : \A k \in 1..Len(emitted[i].positions) :
        ~AbortedSlot(table[emitted[i].offset + 1].slots[emitted[i].positions[k]])

C9_AbortedInvisible == [][C9_Abort]_vars /\ [](C9_NeverEmitted)

C9_Witness ==
  /\ ExecuteReturnedTrue
  /\ \E s \in SlotIds :
       /\ s < table[tile_group + 1].next
       /\ AbortedSlot(table[tile_group + 1].slots[s])
       /\ ~InOutput(s)

ModeAReturnedTrue ==
  /\ exec_state = "inited"
  /\ children = 1
  /\ pc = "idle"
  /\ ret = "true"

\* C4: in Mode A with a predicate set, a visible position of the child's tile
\* stays visible in the emitted tile exactly when the predicate is strictly
\* true on it; a null result removes the visibility as a false one does.
C4_StrictlyTrueKept ==
  (ModeAReturnedTrue /\ predicate # NoPredicate) =>
     \A i \in 1..Len(child_tile.visible) :
        child_tile.visible[i] =>
           (output.visible[i] <=> IsTrue(Evaluate(child_tile.vals[i])))

VisibleByRule(tx, b, e, t, c) ==
  tx = t \/ (tx = INVALID_TXN_ID /\ b <= c /\ e > c)

\* C2: for every state of a slot and every observer, is_visible is true
\* exactly when tuple_txn_id is the observer's txn id, or the slot is unlocked
\* with begin_cid <= last_commit_id < end_cid; a slot held by another valid
\* transaction is invisible whatever its commit ids are; the answer an
\* is_visible call returns is that value for the fields it read.
C2_VisibilityRule ==
  /\ \A t \in Txns : \A c \in 0..MaxCid :
       /\ IsVisible([slots |-> [s \in {0} |-> hslot]], 0, t, c)
            <=> VisibleByRule(hslot.txn, hslot.begin, hslot.end, t, c)
       /\ (hslot.txn # t /\ hslot.txn # INVALID_TXN_ID)
            => ~IsVisible([slots |-> [s \in {0} |-> hslot]], 0, t, c)
  /\ (rpc = "idle" /\ Len(rread) = 3) =>
       /\ rret <=> VisibleByRule(rread[1], rread[2], rread[3], rtxn, rcid)
       /\ (rread[1] # rtxn /\ rread[1] # INVALID_TXN_ID) => ~rret

C2_Witness ==
  /\ rpc = "idle"
  /\ Len(rread) = 3
  /\ rread[1] # rtxn
  /\ rread[1] # INVALID_TXN_ID
  /\ hslot.txn = INVALID_TXN_ID
  /\ hslot.begin <= rcid
  /\ hslot.end > rcid

\* C8: an is_visible call that runs while commit_insert or commit_delete is
\* under way has read a (tuple_txn_id, begin_cid, end_cid) that is the slot
\* entirely before or entirely after that call; having read tuple_txn_id =
\* INVALID_TXN_ID after a commit_insert began, it has read the begin_cid that
\* call wrote.
C8_ConsistentTriple ==
  (rpc = "return" /\ cop # "none") =>
     /\ rread = Triple(pre) \/ rread = Triple(post)
     /\ (cop = "commit_insert" /\ rread[1] = INVALID_TXN_ID) => rread[2] = ccid

C8_Witness ==
  /\ rpc = "return"
  /\ cop = "commit_insert"
  /\ cpc = "lock"
  /\ rread = Triple(pre)

\* C10: for a fixed slot state and observer txn, if the slot is visible at
\* last_commit_id c, it is visible at every c' >= c that is below end_cid.
C10_Monotone ==
  \A t \in Txns : \A c \in 0..MaxCid : \A d \in 0..MaxCid :
     (/\ VisibleTriple(hslot.txn, hslot.begin, hslot.end, t, c)
      /\ d >= c
      /\ d < hslot.end)
       => VisibleTriple(hslot.txn, hslot.begin, hslot.end, t, d)

C10_Witness ==
  /\ hslot.txn = INVALID_TXN_ID
  /\ hslot.end < MAX_CID
  /\ \E t \in Txns : \E c \in 0..MaxCid :
       VisibleTriple(hslot.txn, hslot.begin, hslot.end, t, c)

\* the bytes the last serialization wrote, from where it began writing
LastOutput == SubSeq(out, ser.pos + 1, Len(out))

\* C11: for every Tile T and every n with 0 <= n <= T's tuple count,
\* DeserializeTuplesFrom applied to the output of SerializeTo(out, n), in a
\* fresh Tile of the same schema, succeeds and leaves slots 0..n-1 of the
\* fresh Tile equal, in order, to slots 0..n-1 of T.
C11_RoundTrip ==
  (/\ des.ret # "none"
   /\ des.from = 0
   /\ ser.call = "SerializeTo"
   /\ ser.ret = "true"
   /\ ser.n <= tiles[1].num_tuple_slots
   /\ des.before = NewTile(tiles[1].column_count, des.before.num_tuple_slots)
   /\ des.before.num_tuple_slots >= ser.n)
    => /\ des.ret = "ok"
       /\ \A k \in 1..ser.n : tiles[2].data[k] = tiles[1].data[k]

\* C12: the column header is computed on the first serialization only and
\* cached: every SerializeTo or SerializeTuplesTo call, into any buffer and at
\* any position, writes the bytes the first call wrote, header_size field
\* included, and these are the cached bytes; once set, the cached header and
\* its size never change.
C12_Headers ==
  ser.count >= 1 =>
    /\ \A i \in 1..Len(ser.headers) : ser.headers[i] = ser.headers[1]
    /\ tiles[1].column_header = ser.headers[1]
    /\ tiles[1].column_header_size = Len(ser.headers[1])
    /\ ReadInt(ser.headers[1], 0) = Len(ser.headers[1]) - 4
    /\ SubSeq(LastOutput, 5, 4 + Len(ser.headers[1])) = ser.headers[1]

C12_CacheStep ==
  (tiles[1] # NoTile /\ tiles[1].column_header # <<>>) =>
     /\ tiles'[1].column_header = tiles[1].column_header
     /\ tiles'[1].column_header_size = tiles[1].column_header_size

C12_HeaderWriteOnce == [](C12_Headers) /\ [][C12_CacheStep]_vars

C12_Witness ==
  /\ ser.count >= 2
  /\ ser.call = "SerializeTuplesTo"
  /\ ser.pos = 1
  /\ tiles[1].column_count = 2

C15_EqualitySymmetric ==
  (eq[1] # "none" /\ eq[2] # "none") =>
     /\ eq[1] = eq[2]
     /\ eq[1] = "true" <=>
          /\ tiles[1].column_count = tiles[2].column_count
          /\ tiles[1].database_id = tiles[2].database_id
          /\ tiles[1].schema = tiles[2].schema
          /\ tiles[1].data = tiles[2].data

ScanTiles == {t \in {output, held} : t # NoTile /\ \A i \in 1..Len(t.columns) : t.columns[i].tile # TempTile}

\* C14: dropping a LogicalTile deletes exactly the bound Tiles whose
\* own_base_tile flag is true; every column binding of a tile emitted by a
\* Mode B scan has own_base_tile = false and position_list_index = 0; so
\* after any scans and drops every Tile of the table's tile groups has never
\* been deleted, and no Tile is deleted twice.
C14_Bindings ==
  \A t \in ScanTiles : \A i \in 1..Len(t.columns) :
     /\ t.columns[i].own_base_tile = FALSE
     /\ t.columns[i].position_list_idx = 0

C14_Alive ==
  /\ \A b \in BaseTiles : b # TempTile => freed[b] = 0
  /\ freed[TempTile] <= 1

C14_Drop ==
  held' = NoTile /\ held # NoTile =>
    \A b \in BaseTiles :
      freed'[b] = freed[b] +
        (IF \E i \in 1..Len(held.columns) :
               held.columns[i].tile = b /\ held.columns[i].own_base_tile
         THEN 1 ELSE 0)

C14_Ownership == [](C14_Bindings) /\ [](C14_Alive) /\ [][C14_Drop]_vars

C14_Witness ==
  /\ exec_state = "inited"
  /\ ret = "true"
  /\ calls = 2
  /\ emitted[1].positions # <<>>
  /\ output = NoTile
  /\ held = NoTile
  /\ freed[TempTile] = 1

\* C16: the tile-group count a Mode B scan compares its offset against is the
\* one read at the first execute() call after init(): a later call leaves it as
\* it was, whatever was appended to the table since, and returns false as soon
\* as the offset has reached it.
C16_CountFixedAtFirstCall ==
  [][(exec_state = "inited" /\ children = 0 /\ calls >= 1 /\ calls' = calls + 1) =>
       /\ table_tile_group_count' = table_tile_group_count
       /\ current_tile_group_offset >= table_tile_group_count =>
            (ret' = "false" /\ pc' = "idle")]_vars

\* the batch a scan started now would emit for tile group o
FreshPositions(o) ==
  {s \in SlotIds : /\ s < table[o + 1].next
                   /\ IsVisible(table[o + 1], s, txn_id, last_commit_id)
                   /\ PredicateHolds(predicate, table[o + 1].slots[s].val)}

\* C17: an init() whose base initialization succeeds returns true and sets
\* current_tile_group_offset to START_OID, one whose base initialization fails
\* returns false and leaves the offset alone; the execute() calls that follow
\* an init() emit, tile group by tile group from tile group 0, the batches of
\* a fresh scan.
C17_InitStep ==
  /\ DInit(TRUE) => (init_ret' = "true" /\ current_tile_group_offset' = START_OID)
  /\ DInit(FALSE) =>
       (init_ret' = "false" /\ current_tile_group_offset' = current_tile_group_offset)

C17_FreshScan ==
  (exec_state = "inited" /\ children = 0) =>
     /\ pc = "idle" /\ calls >= 1 /\ ret = "true" => Len(emitted) = calls
     /\ \A i \in 1..Len(emitted) :
          LET pl == emitted[i].positions
          IN  /\ emitted[i].offset = START_OID + i - 1
              /\ {pl[k] : k \in 1..Len(pl)} = FreshPositions(i - 1)
              /\ \A k \in 1..(Len(pl) - 1) : pl[k] < pl[k + 1]

C17_Reinit == [][C17_InitStep]_vars /\ [](C17_FreshScan)

C17_Witness ==
  /\ exec_state = "inited"
  /\ init_ret = "true"
  /\ pc = "scan"
  /\ calls = 1
  /\ tile_group = START_OID
  /\ position_list # <<>>
  /\ output # NoTile
  /\ output.columns[1].tile[1] = 1

\* C18: a Mode A execute() calls the child's Execute() once; when that returns
\* false it returns false, asks for no output and leaves its own output
\* alone; otherwise it takes the child's output once and returns true, also
\* for an empty tile, with an output that has the child's position lists and
\* column bindings and whose visible positions are among the child's, and
\* are exactly the child's when there is no predicate.
C18_Step ==
  (children = 1 /\ calls' = calls + 1) =>
     /\ child_calls'.Execute = 1
     /\ IF ~child_calls'.returned
        THEN /\ ret' = "false"
             /\ child_calls'.GetOutput = 0
             /\ output' = output
        ELSE /\ ret' = "true"
             /\ child_calls'.GetOutput = 1
             /\ output'.position_lists = child_tile'.position_lists
             /\ output'.columns = child_tile'.columns
             /\ Len(output'.visible) = Len(child_tile'.visible)
             /\ \A i \in 1..Len(output'.visible) : output'.visible[i] => child_tile'.visible[i]
             /\ predicate = NoPredicate => output' = child_tile'

C18_ChildPassThrough == [][C18_Step]_vars

C18_Witness ==
  /\ exec_state = "inited"
  /\ children = 1
  /\ predicate # NoPredicate
  /\ child_calls.returned
  /\ ret = "true"
  /\ child_tile.visible = <<>>
  /\ output = child_tile

\* the slots of a batch
PositionsOf(plist) == {plist[i] : i \in 1..Len(plist)}

\* C19: next_free_slot of a tile group never decreases, whatever reserve_slot,
\* commit_insert, commit_delete and abort calls are made; a scan reads it once
\* per tile group, so the batch of a tile group holds only slots below the
\* value read, and a slot claimed while the tile group is being scanned lies
\* at or above that value and is not in the batch.
C19_Step ==
  /\ \A o \in 1..Len(table) : table'[o].next >= table[o].next
  /\ (pc = "scan" /\ pc' = "scan") => active_tuple_count' = active_tuple_count
  /\ (pc = "scan" /\ table'[tile_group + 1].next > table[tile_group + 1].next) =>
        /\ table[tile_group + 1].next >= active_tuple_count
        /\ table[tile_group + 1].next \notin PositionsOf(position_list')

C19_Batch ==
  /\ pc = "scan" =>
       /\ active_tuple_count <= table[tile_group + 1].next
       /\ \A s \in PositionsOf(position_list) : s < active_tuple_count
  /\ ExecuteReturnedTrue =>
       \A s \in PositionsOf(output.position_lists[1]) : s < active_tuple_count

C19_SnapshotBound == [][C19_Step]_vars /\ [](C19_Batch)

C19_Witness ==
  /\ ExecuteReturnedTrue
  /\ active_tuple_count = 1
  /\ output.position_lists[1] = <<0>>
  /\ table[current_tile_group_offset].next = 2
  /\ IsVisible(table[current_tile_group_offset], 1, txn_id, last_commit_id)

\* C20: when the evaluation of the predicate fails, the error leaves
\* execute() without an output tile being set, and the tile group whose
\* evaluation failed is not passed over by a later execute() as if it had
\* been emitted: the tile groups below the offset are the emitted ones.
C20_Step ==
  (pc = "scan" /\ pc' = "idle" /\ ret' = "throw") => output' = output

C20_NothingSkipped ==
  (exec_state = "inited" /\ children = 0 /\ pc = "idle") =>
     {emitted[i].offset : i \in 1..Len(emitted)} = 0..(current_tile_group_offset - 1)

C20_ErrorPropagates == [][C20_Step]_vars /\ [](C20_NothingSkipped)

\* C21: SerializeTo(out, num_tuples) returns with a stream that holds at most
\* num_tuples tuples, the tile's tuples in iteration order from slot 0; the
\* tuple_count field equals the number of tuple payloads that follow it, also
\* when num_tuples exceeds the tile's number of tuple slots; the total_size
\* field equals the number of bytes written after it.
C21_TupleCountMatchesPayload ==
  ser.call = "SerializeTo" =>
    /\ ser.ret = "true"
    /\ LET cc == tiles[1].column_count
           count_at == 4 + Len(ser.headers[Len(ser.headers)])
           rows == ReadInt(LastOutput, count_at)
           following == Len(LastOutput) - count_at - 4
       IN  /\ rows * cc = following
           /\ rows <= ser.n
           /\ rows <= tiles[1].num_tuple_slots
           /\ \A k \in 1..rows :
                SubSeq(LastOutput, count_at + 4 + (k - 1) * cc + 1, count_at + 4 + k * cc)
                  = tiles[1].data[k]
           /\ ReadInt(LastOutput, 0) = Len(LastOutput) - 4

\* C22: whenever GetPGClassTupleForRelationOid, SetNumberOfTuples,
\* GetTableList, GetDatabaseList or BootstrapPeloton has returned, on any
\* return path, the failed cache lookup included, every relation it opened
\* has been closed and the transaction it started has been committed.
C22_ClosedAndCommittedOnReturn ==
  (bfn = "none" /\ bret.kind = "return") =>
     /\ xact = "default"
     /\ heap = NoLocks

====
